---- MODULE Spec2Model ----
(***************************************************************************)
(* take-until-destroy: the takeUntilDestroy operator of                    *)
(* src/take-until-destroy.ts as a state machine.                           *)
(*                                                                         *)
(* The state is the module-wide registry instanceDestroy$Map, each         *)
(* instance's ngOnDestroy attribute, the Subjects created at line 63, the  *)
(* streams returned at lines 60 and 79 and the position of the one hook    *)
(* invocation that may be in progress.  Execution is single-threaded: the  *)
(* only interleaving is re-entrancy, user code (the original hook, an      *)
(* observer's complete callback) calling back into the operator while the  *)
(* wrapper of lines 67-77 is running.                                      *)
(***************************************************************************)
EXTENDS Integers, Sequences, FiniteSets, TLC

\* Bounds of the model.
MaxStreams == 3
MaxSignals == 3
MaxHookCalls == 2

\* The instances handed to takeUntilDestroy as `target`.
Instances == {"A", "B"}

\* typeof target.ngOnDestroy as the instance was constructed.
HookTypes == {"function", "undefined", "object"}

Streams == 1..MaxStreams
Signals == 1..MaxSignals

\* instanceDestroy$Map.has(target) is false: no signal.
NoSignal == 0

VARIABLES
    ngOnDestroy,         \* [type, wrappers]: the attribute; wrappers = the signals whose wrapper is stacked on it, innermost first
    instanceDestroyMap,  \* the registry: instance -> signal or NoSignal
    subject,             \* per signal: [used, target, isStopped, observers, emitted]
    stream,              \* per stream: [state, target, sig, served, released, attached]
    operator,            \* the target of the operator function takeUntilDestroy(target) about to be piped, or "-"
    call,                \* the hook invocation in progress
    outcome,             \* how the last hook invocation ended
    pre,                 \* the state the last hook invocation started in
    hookCalls,           \* instance -> invocations of its hook by the host
    originalCalls,       \* instance -> runs of the original (user-supplied) hook
    hookWrites,          \* instance -> assignments to target.ngOnDestroy by the operator
    hostRef,             \* instance -> the host still holds a reference to it
    reclaimed            \* instance -> the garbage collector reclaimed it

vars == <<ngOnDestroy, instanceDestroyMap, subject, stream, operator, call, outcome,
          pre, hookCalls, originalCalls, hookWrites, hostRef, reclaimed>>

----------------------------------------------------------------------------
\* Helpers

\* typeof target.ngOnDestroy (line 53): a wrapper, once installed, is a function.
TypeOf(i) ==
    IF ngOnDestroy[i].wrappers # <<>> THEN "function" ELSE ngOnDestroy[i].type

\* State of a Subject: armed until next() (line 72), closed after complete() (line 73).
SignalState(s) ==
    IF ~subject[s].used THEN "unused"
    ELSE IF subject[s].isStopped THEN "closed"
    ELSE IF subject[s].emitted > 0 THEN "fired"
    ELSE "armed"

UsedSignals == {s \in Signals : subject[s].used}
UsedStreams == {st \in Streams : stream[st].state # "unused"}

Idle == call.pc = "idle"

\* User code is running: at top level, in the original hook, or in an observer's
\* complete callback.
UserCode == call.pc \in {"idle", "body", "callback"}

NoCall == [pc |-> "idle", target |-> "-", top |-> 0, level |-> 0, pending |-> <<>>]

Remove(seq, x) == SelectSeq(seq, LAMBDA y : y # x)

\* The signals of instance i that hold observers.
Subscribed(i) ==
    {st \in Streams : \E s \in Signals :
        /\ subject[s].used /\ subject[s].target = i
        /\ \E k \in 1..Len(subject[s].observers) : subject[s].observers[k] = st}

----------------------------------------------------------------------------
\* Instance A is constructed with a callable ngOnDestroy; instance B's is absent
\* or not callable.
Init ==
    /\ ngOnDestroy \in {f \in [Instances -> {[type |-> t, wrappers |-> <<>>] : t \in HookTypes}] :
                          f["A"].type = "function" /\ f["B"].type # "function"}
    /\ instanceDestroyMap = [i \in Instances |-> NoSignal]
    /\ subject = [s \in Signals |->
                    [used |-> FALSE, target |-> "-", isStopped |-> FALSE,
                     observers |-> <<>>, emitted |-> 0]]
    /\ stream = [st \in Streams |->
                    [state |-> "unused", target |-> "-", sig |-> NoSignal,
                     served |-> "none", released |-> 0, attached |-> "none"]]
    /\ operator = "-"
    /\ call = NoCall
    /\ outcome = "none"
    /\ pre = [target |-> "-", map |-> NoSignal, subs |-> {}, armed |-> {}]
    /\ hookCalls = [i \in Instances |-> 0]
    /\ originalCalls = [i \in Instances |-> 0]
    /\ hookWrites = [i \in Instances |-> 0]
    /\ hostRef = [i \in Instances |-> TRUE]
    /\ reclaimed = [i \in Instances |-> FALSE]

----------------------------------------------------------------------------
\* The outer arrow of line 49 as it would be with lines 50-77 in it: the signal
\* is installed when the operator function is built.
takeUntilDestroyEager(i) ==
    /\ UserCode
    /\ hostRef[i]
    /\ operator = "-"
    /\ operator' = i
    /\ TypeOf(i) = "function"
    /\ instanceDestroyMap[i] = NoSignal
    /\ Cardinality(UsedSignals) < MaxSignals
    /\ LET newDestroy == Cardinality(UsedSignals) + 1 IN
        /\ subject' = [subject EXCEPT ![newDestroy] =
                        [used |-> TRUE, target |-> i, isStopped |-> FALSE,
                         observers |-> <<>>, emitted |-> 0]]
        /\ instanceDestroyMap' = [instanceDestroyMap EXCEPT ![i] = newDestroy]
        /\ ngOnDestroy' = [ngOnDestroy EXCEPT ![i].wrappers = Append(@, newDestroy)]
        /\ hookWrites' = [hookWrites EXCEPT ![i] = @ + 1]
    /\ UNCHANGED <<stream, call, outcome, pre, hookCalls, originalCalls, hostRef,
                   reclaimed>>

\* takeUntilDestroy(target): the outer arrow of line 49 only builds the operator
\* function, which closes over target.
takeUntilDestroy(i) ==
    /\ UserCode
    /\ hostRef[i]
    /\ operator = "-"
    /\ operator' = i
    /\ UNCHANGED <<ngOnDestroy, instanceDestroyMap, subject, stream, call, outcome,
                   pre, hookCalls, originalCalls, hookWrites, hostRef, reclaimed>>

\* A failing request as it would be with lines 63-65 ahead of the check of line 53.
ApplyThrowAfterSet(i, st) ==
    /\ TypeOf(i) # "function"
    /\ Cardinality(UsedSignals) < MaxSignals
    /\ LET newDestroy == Cardinality(UsedSignals) + 1 IN
        /\ subject' = [subject EXCEPT ![newDestroy] =
                        [used |-> TRUE, target |-> i, isStopped |-> FALSE,
                         observers |-> <<>>, emitted |-> 0]]
        /\ instanceDestroyMap' = [instanceDestroyMap EXCEPT ![i] = newDestroy]
    /\ stream' = [stream EXCEPT ![st] =
                    [state |-> "failed", target |-> i, sig |-> NoSignal,
                     served |-> "error", released |-> 0, attached |-> "none"]]
    /\ UNCHANGED <<ngOnDestroy, hookWrites>>

\* A failing request as it would be with the assignment of line 67 ahead of the
\* check of line 53.
ApplyThrowAfterWrap(i, st) ==
    /\ TypeOf(i) # "function"
    /\ Cardinality(UsedSignals) < MaxSignals
    /\ LET newDestroy == Cardinality(UsedSignals) + 1 IN
        /\ subject' = [subject EXCEPT ![newDestroy] =
                        [used |-> TRUE, target |-> i, isStopped |-> FALSE,
                         observers |-> <<>>, emitted |-> 0]]
        /\ ngOnDestroy' = [ngOnDestroy EXCEPT ![i].wrappers = Append(@, newDestroy)]
    /\ hookWrites' = [hookWrites EXCEPT ![i] = @ + 1]
    /\ stream' = [stream EXCEPT ![st] =
                    [state |-> "failed", target |-> i, sig |-> NoSignal,
                     served |-> "error", released |-> 0, attached |-> "none"]]
    /\ UNCHANGED instanceDestroyMap

\* A failing request as it would be with the check of line 53 deferred to the
\* subscription: the request returns a stream.
ApplyThrowDeferred(i, st) ==
    /\ TypeOf(i) # "function"
    /\ Cardinality(UsedSignals) < MaxSignals
    /\ LET newDestroy == Cardinality(UsedSignals) + 1 IN
        /\ subject' = [subject EXCEPT ![newDestroy] =
                        [used |-> TRUE, target |-> i, isStopped |-> FALSE,
                         observers |-> <<>>, emitted |-> 0]]
        /\ stream' = [stream EXCEPT ![st] =
                        [state |-> "piped", target |-> i, sig |-> newDestroy,
                         served |-> "error", released |-> 0, attached |-> "none"]]
    /\ UNCHANGED <<ngOnDestroy, instanceDestroyMap, hookWrites>>

\* Lines 50-55: the hook is absent or not callable: throw NO_NGONDESTROY.
\* Nothing is returned, so the caller holds no stream to subscribe to.
ApplyThrow(i, st) ==
    /\ TypeOf(i) # "function"
    /\ stream' = [stream EXCEPT ![st] =
                    [state |-> "failed", target |-> i, sig |-> NoSignal,
                     served |-> "error", released |-> 0, attached |-> "none"]]
    /\ UNCHANGED <<ngOnDestroy, instanceDestroyMap, subject, hookWrites>>

\* A request for a registered target as it would be without the shortcut of
\* lines 57-61: every request installs.
ApplyFoundInstalls(i, st) ==
    /\ TypeOf(i) = "function"
    /\ instanceDestroyMap[i] # NoSignal
    /\ Cardinality(UsedSignals) < MaxSignals
    /\ LET newDestroy == Cardinality(UsedSignals) + 1 IN
        /\ subject' = [subject EXCEPT ![newDestroy] =
                        [used |-> TRUE, target |-> i, isStopped |-> FALSE,
                         observers |-> <<>>, emitted |-> 0]]
        /\ instanceDestroyMap' = [instanceDestroyMap EXCEPT ![i] = newDestroy]
        /\ ngOnDestroy' = [ngOnDestroy EXCEPT ![i].wrappers = Append(@, newDestroy)]
        /\ hookWrites' = [hookWrites EXCEPT ![i] = @ + 1]
        /\ stream' = [stream EXCEPT ![st] =
                        [state |-> "piped", target |-> i, sig |-> newDestroy,
                         served |-> "armed", released |-> 0, attached |-> "none"]]

\* Lines 57-61: the registry holds a signal for target: pipe the stream on it.
ApplyFound(i, st) ==
    /\ TypeOf(i) = "function"
    /\ instanceDestroyMap[i] # NoSignal
    /\ stream' = [stream EXCEPT ![st] =
                    [state |-> "piped", target |-> i, sig |-> instanceDestroyMap[i],
                     served |-> SignalState(instanceDestroyMap[i]), released |-> 0, attached |-> "none"]]
    /\ UNCHANGED <<ngOnDestroy, instanceDestroyMap, subject, hookWrites>>

\* Lines 63-79: new Subject, registry entry, wrapper over the current hook.
ApplyInstall(i, st) ==
    /\ TypeOf(i) = "function"
    /\ instanceDestroyMap[i] = NoSignal
    /\ Cardinality(UsedSignals) < MaxSignals
    /\ LET newDestroy == Cardinality(UsedSignals) + 1 IN
        /\ subject' = [subject EXCEPT ![newDestroy] =
                        [used |-> TRUE, target |-> i, isStopped |-> FALSE,
                         observers |-> <<>>, emitted |-> 0]]
        /\ instanceDestroyMap' = [instanceDestroyMap EXCEPT ![i] = newDestroy]
        /\ ngOnDestroy' = [ngOnDestroy EXCEPT ![i].wrappers = Append(@, newDestroy)]
        /\ hookWrites' = [hookWrites EXCEPT ![i] = @ + 1]
        /\ stream' = [stream EXCEPT ![st] =
                        [state |-> "piped", target |-> i, sig |-> newDestroy,
                         served |-> "armed", released |-> 0, attached |-> "none"]]

\* The inner arrow of line 49: the operator applied to a stream
\* (stream.pipe(takeUntilDestroy(target)), line 42); pipe keeps no reference to
\* the operator function.
Apply(i) ==
    /\ UserCode
    /\ operator = i
    /\ operator' = "-"
    /\ Cardinality(UsedStreams) < MaxStreams
    /\ LET st == Cardinality(UsedStreams) + 1 IN
        \/ ApplyThrow(i, st)
        \/ ApplyFound(i, st)
        \/ ApplyInstall(i, st)
    /\ UNCHANGED <<call, outcome, pre, hookCalls, originalCalls, hostRef, reclaimed>>

\* subscribe() on a stream of line 60/79: takeUntil subscribes to the notifier.
\* A stopped Subject answers with complete, which takeUntil ignores.
Subscribe(st) ==
    /\ UserCode
    /\ stream[st].state = "piped"
    /\ stream' = [stream EXCEPT ![st].state = "subscribed",
                                ![st].attached = SignalState(stream[st].sig)]
    /\ LET s == stream[st].sig IN
        subject' = IF subject[s].isStopped THEN subject
                   ELSE [subject EXCEPT ![s].observers = Append(@, st)]
    /\ UNCHANGED <<ngOnDestroy, instanceDestroyMap, operator, call, outcome, pre,
                   hookCalls, originalCalls, hookWrites, hostRef, reclaimed>>

----------------------------------------------------------------------------
\* Entering a hook as it would be if every wrapper ran the user-supplied hook
\* itself before the hook it captured.
EnterRunsOriginal(i, level, top) ==
    /\ call' = [pc |-> (IF level = 0 THEN "body" ELSE "enter"), target |-> i,
                top |-> top, level |-> level, pending |-> <<>>]
    /\ originalCalls' = [originalCalls EXCEPT ![i] = @ + 1]

\* The hook captured by the wrapper at `level` (originalDestroy, line 50) is
\* entered: the user-supplied hook under the innermost wrapper, else the
\* wrapper below, at its line 70.
Enter(i, level, top) ==
    IF level = 0
    THEN /\ call' = [pc |-> "body", target |-> i, top |-> top, level |-> 0,
                     pending |-> <<>>]
         /\ originalCalls' = [originalCalls EXCEPT ![i] = @ + 1]
    ELSE /\ call' = [pc |-> "enter", target |-> i, top |-> top, level |-> level,
                     pending |-> <<>>]
         /\ UNCHANGED originalCalls

\* The host invokes target.ngOnDestroy(): the outermost wrapper, or the
\* user-supplied hook when no wrapper is installed.
InvokeHook(i) ==
    /\ Idle
    /\ hostRef[i]
    /\ TypeOf(i) = "function"
    /\ hookCalls[i] < MaxHookCalls
    /\ Enter(i, Len(ngOnDestroy[i].wrappers), Len(ngOnDestroy[i].wrappers))
    /\ outcome' = "running"
    /\ pre' = [target |-> i, map |-> instanceDestroyMap[i], subs |-> Subscribed(i),
               armed |-> {s \in Signals : subject[s].target = i /\ SignalState(s) = "armed"}]
    /\ hookCalls' = [hookCalls EXCEPT ![i] = @ + 1]
    /\ UNCHANGED <<ngOnDestroy, instanceDestroyMap, subject, stream, operator,
                   hookWrites, hostRef, reclaimed>>

\* Line 70, originalDestroy.call(target): the wrapper calls the hook it captured.
CallOriginal ==
    /\ call.pc = "enter"
    /\ Enter(call.target, call.level - 1, call.top)
    /\ UNCHANGED <<ngOnDestroy, instanceDestroyMap, subject, stream, operator, outcome,
                   pre, hookCalls, hookWrites, hostRef, reclaimed>>

\* Control returns to the caller of the frame at `level`: the next wrapper out
\* goes on at line 72, or the invocation returns to the host.
ReturnFrom(level) ==
    IF level = call.top
    THEN /\ call' = NoCall
         /\ outcome' = "returned"
    ELSE /\ call' = [call EXCEPT !.pc = "next", !.level = level + 1, !.pending = <<>>]
         /\ UNCHANGED outcome

\* The original hook returns normally.
OriginalReturn ==
    /\ call.pc = "body"
    /\ ReturnFrom(0)
    /\ UNCHANGED <<ngOnDestroy, instanceDestroyMap, subject, stream, operator, pre,
                   hookCalls, originalCalls, hookWrites, hostRef, reclaimed>>

\* The original hook raising as it would be with lines 72-76 in a finally block:
\* the error still reaches the host, after the wrapper has gone on.
OriginalRaiseFinally ==
    /\ call.pc = "body"
    /\ call.top > 0
    /\ call' = [call EXCEPT !.pc = "next", !.level = 1, !.pending = <<>>]
    /\ outcome' = "raised"
    /\ UNCHANGED <<ngOnDestroy, instanceDestroyMap, subject, stream, operator, pre,
                   hookCalls, originalCalls, hookWrites, hostRef, reclaimed>>

\* The original hook raises: no wrapper catches (line 70 is not in a try), so
\* the error unwinds every wrapper and reaches the host.
OriginalRaise ==
    /\ call.pc = "body"
    /\ call' = NoCall
    /\ outcome' = "raised"
    /\ UNCHANGED <<ngOnDestroy, instanceDestroyMap, subject, stream, operator, pre,
                   hookCalls, originalCalls, hookWrites, hostRef, reclaimed>>

\* Line 72 as it would be after line 73: next() on a completed Subject emits
\* nothing.
SubjectNextAfterComplete ==
    /\ call.pc = "next"
    /\ call' = [call EXCEPT !.pc = "notify", !.pending = <<>>]
    /\ UNCHANGED <<ngOnDestroy, instanceDestroyMap, subject, stream, operator, outcome,
                   pre, hookCalls, originalCalls, hookWrites, hostRef, reclaimed>>

\* Line 72 as it would be on an emitter that does not stop on complete(): every
\* call emits.
SubjectNextRearmed ==
    /\ call.pc = "next"
    /\ LET s == ngOnDestroy[call.target].wrappers[call.level] IN
        /\ call' = [call EXCEPT !.pc = "notify", !.pending = subject[s].observers]
        /\ subject' = [subject EXCEPT ![s].emitted = @ + 1]
    /\ UNCHANGED <<ngOnDestroy, instanceDestroyMap, stream, operator, outcome, pre,
                   hookCalls, originalCalls, hookWrites, hostRef, reclaimed>>

\* Line 72, newDestroy$.next(): a Subject that is not stopped emits to a copy of
\* its observers; a stopped one does nothing.
SubjectNext ==
    /\ call.pc = "next"
    /\ LET s == ngOnDestroy[call.target].wrappers[call.level] IN
        IF subject[s].isStopped
        THEN /\ call' = [call EXCEPT !.pc = "notify", !.pending = <<>>]
             /\ UNCHANGED subject
        ELSE /\ call' = [call EXCEPT !.pc = "notify", !.pending = subject[s].observers]
             /\ subject' = [subject EXCEPT ![s].emitted = @ + 1]
    /\ UNCHANGED <<ngOnDestroy, instanceDestroyMap, stream, operator, outcome, pre,
                   hookCalls, originalCalls, hookWrites, hostRef, reclaimed>>

\* The notification reaches the next observer of the copy: its takeUntil
\* completes the stream, and the stream's complete callback starts to run.
Notify ==
    /\ call.pc = "notify"
    /\ call.pending # <<>>
    /\ stream' = [stream EXCEPT ![Head(call.pending)].state = "completed"]
    /\ call' = [call EXCEPT !.pc = "callback"]
    /\ UNCHANGED <<ngOnDestroy, instanceDestroyMap, subject, operator, outcome, pre,
                   hookCalls, originalCalls, hookWrites, hostRef, reclaimed>>

\* The complete callback returns; the completed subscriber unsubscribes from
\* the Subject.
CallbackReturn ==
    /\ call.pc = "callback"
    /\ LET st == Head(call.pending)
           s == stream[st].sig IN
        /\ stream' = [stream EXCEPT ![st].released = @ + 1]
        /\ subject' = [subject EXCEPT ![s].observers = Remove(@, st)]
    /\ call' = [call EXCEPT !.pc = "notify", !.pending = Tail(@)]
    /\ UNCHANGED <<ngOnDestroy, instanceDestroyMap, operator, outcome, pre,
                   hookCalls, originalCalls, hookWrites, hostRef, reclaimed>>

\* Line 73, newDestroy$.complete(): the Subject stops and drops its observers
\* (takeUntil ignores the notifier's completion).
SubjectComplete(s) ==
    subject' = [subject EXCEPT ![s].isStopped = TRUE, ![s].observers = <<>>]

\* The wrapper as it would be without line 76.
MapKeep(i) ==
    UNCHANGED instanceDestroyMap

\* Line 76, instanceDestroy$Map.delete(target).
MapDelete(i) ==
    instanceDestroyMap' = [instanceDestroyMap EXCEPT ![i] = NoSignal]

\* Lines 73-77: the rest of the wrapper, which runs no user code.
CompleteAndDelete ==
    /\ call.pc = "notify"
    /\ call.pending = <<>>
    /\ SubjectComplete(ngOnDestroy[call.target].wrappers[call.level])
    /\ MapDelete(call.target)
    /\ ReturnFrom(call.level)
    /\ UNCHANGED <<ngOnDestroy, stream, operator, pre, hookCalls, originalCalls,
                   hookWrites, hostRef, reclaimed>>

----------------------------------------------------------------------------
\* The host drops its references to the instance (and to the operator function
\* closing over it) without invoking the hook.
DropRef(i) ==
    /\ Idle
    /\ hostRef[i]
    /\ hostRef' = [hostRef EXCEPT ![i] = FALSE]
    /\ operator' = IF operator = i THEN "-" ELSE operator
    /\ UNCHANGED <<ngOnDestroy, instanceDestroyMap, subject, stream, call, outcome,
                   pre, hookCalls, originalCalls, hookWrites, reclaimed>>

\* Line 13 as it would be with a Map: an entry retains its key.
MapRetains(i) == instanceDestroyMap[i] # NoSignal

\* Line 13: the registry is a WeakMap; a key of a WeakMap is not retained by it.
RegistryRetains(i) == FALSE

\* The garbage collector, which may run at any time, reclaims an instance
\* nothing retains; its WeakMap entry goes with it.
Reclaim(i) ==
    /\ ~hostRef[i]
    /\ ~reclaimed[i]
    /\ ~RegistryRetains(i)
    /\ reclaimed' = [reclaimed EXCEPT ![i] = TRUE]
    /\ instanceDestroyMap' = [instanceDestroyMap EXCEPT ![i] = NoSignal]
    /\ UNCHANGED <<ngOnDestroy, subject, stream, operator, call, outcome, pre,
                   hookCalls, originalCalls, hookWrites, hostRef>>

----------------------------------------------------------------------------
Next ==
    \/ \E i \in Instances : takeUntilDestroy(i)
    \/ \E i \in Instances : Apply(i)
    \/ \E st \in Streams : Subscribe(st)
    \/ \E i \in Instances : InvokeHook(i)
    \/ CallOriginal
    \/ OriginalReturn
    \/ OriginalRaise
    \/ SubjectNext
    \/ Notify
    \/ CallbackReturn
    \/ CompleteAndDelete
    \/ \E i \in Instances : DropRef(i)
    \/ \E i \in Instances : Reclaim(i)

Spec == Init /\ [][Next]_vars

----------------------------------------------------------------------------
\* Properties

StreamsOf(i) == {st \in Streams : stream[st].target = i /\ stream[st].state # "unused"}
Served(i) == {st \in StreamsOf(i) : stream[st].served # "error"}

\* C1: for every instance whose hook has not been invoked yet, all requests made
\* for it use one and the same signal and the hook was assigned once, by the
\* first of them; and one invocation of the hook then runs the original hook
\* exactly once.
C1_SharedSignal ==
    \A i \in Instances :
        /\ hookCalls[i] = 0 =>
            /\ \A st1, st2 \in Served(i) : stream[st1].sig = stream[st2].sig
            /\ Served(i) # {} =>
                /\ hookWrites[i] = 1
                /\ ngOnDestroy[i].wrappers = <<instanceDestroyMap[i]>> \/ reclaimed[i]
                /\ \A st \in Served(i) : ngOnDestroy[i].wrappers = <<stream[st].sig>>
        /\ (hookCalls[i] = 1 /\ Idle) => originalCalls[i] = 1

C1_Witness ==
    /\ Idle
    /\ hookCalls["A"] = 1
    /\ originalCalls["A"] = 1
    /\ hookWrites["A"] = 1
    /\ \E st1, st2 \in Served("A") :
        /\ st1 # st2
        /\ stream[st1].sig = stream[st2].sig
        /\ stream[st1].served = "armed"
        /\ stream[st2].served = "armed"

\* C2: when a hook invocation has returned normally, every signal of the instance
\* that was armed when it started (the registry's among them) has emitted exactly
\* one notification, and every stream that was subscribed through one of them at
\* that moment has completed and was released exactly once.  On the first
\* invocation that is the registry's signal alone: one notification in all.
C2_FiringCompletes ==
    outcome = "returned" =>
        /\ pre.map # NoSignal => pre.map \in pre.armed
        /\ \A s \in pre.armed : subject[s].emitted = 1 /\ subject[s].isStopped
        /\ hookCalls[pre.target] = 1 =>
            /\ pre.armed = (IF pre.map = NoSignal THEN {} ELSE {pre.map})
            /\ \A s \in Signals :
                (subject[s].target = pre.target /\ subject[s].emitted > 0) => s \in pre.armed
        /\ \A st \in pre.subs :
            /\ stream[st].state = "completed"
            /\ stream[st].released = 1

C2_Witness ==
    /\ outcome = "returned"
    /\ pre.map # NoSignal
    /\ Cardinality(pre.subs) >= 2
    /\ \A st \in pre.subs : stream[st].state = "completed" /\ stream[st].released = 1

\* C3: a request for an instance whose hook is absent or not callable fails, and
\* the registry holds no entry for that instance afterwards.
C3_FailureNoEntry ==
    \A st \in Streams :
        /\ stream[st].served = "error" =>
            /\ stream[st].state = "failed"
            /\ instanceDestroyMap[stream[st].target] = NoSignal
        /\ (stream[st].state # "unused" /\ ngOnDestroy[stream[st].target].wrappers = <<>>
            /\ ngOnDestroy[stream[st].target].type # "function") =>
                stream[st].served = "error"

C3_Witness ==
    \E st \in Streams :
        /\ stream[st].state = "failed"
        /\ stream[st].target = "B"
        /\ ngOnDestroy["B"].type = "undefined"

\* C4: a request that fails changes nothing: the registry, every instance's hook
\* attribute and the set of signals are as they were before it.
C4_FailureFrame ==
    [][(\E st \in Streams : stream[st].served # "error" /\ stream'[st].served = "error") =>
        /\ instanceDestroyMap' = instanceDestroyMap
        /\ ngOnDestroy' = ngOnDestroy
        /\ subject' = subject
        /\ hookWrites' = hookWrites]_vars

C4_Witness ==
    /\ \E st \in Streams : stream[st].state = "failed" /\ ngOnDestroy["B"].type = "object"
    /\ instanceDestroyMap["A"] # NoSignal
    /\ ngOnDestroy["B"].wrappers = <<>>

\* C5: when an invocation of a wrapped hook returns, the instance has no registry
\* entry; a request then made for an instance without an entry, one of whose
\* signals has fired, creates an entry holding a signal that was not in use
\* before, is armed and has emitted nothing, and the stream returned is not
\* completed.
C5_FreshAfterFiring ==
    [][/\ (outcome = "running" /\ outcome' = "returned" /\ call.top > 0) =>
            instanceDestroyMap'[call.target] = NoSignal
       /\ \A i \in Instances : \A st \in Streams :
            (/\ instanceDestroyMap[i] = NoSignal
             /\ \E s \in Signals : subject[s].target = i /\ subject[s].isStopped
             /\ stream[st].state = "unused"
             /\ stream'[st].state # "unused"
             /\ stream'[st].target = i) =>
                /\ instanceDestroyMap'[i] # NoSignal
                /\ instanceDestroyMap'[i] = stream'[st].sig
                /\ ~subject[stream'[st].sig].used
                /\ subject'[stream'[st].sig].used
                /\ ~subject'[stream'[st].sig].isStopped
                /\ subject'[stream'[st].sig].emitted = 0
                /\ subject'[stream'[st].sig].target = i
                /\ stream'[st].state = "piped"]_vars

C5_Witness ==
    /\ Idle
    /\ \E st \in Streams, s \in Signals :
        /\ stream[st].target = "A"
        /\ stream[st].state = "piped"
        /\ stream[st].sig = instanceDestroyMap["A"]
        /\ SignalState(stream[st].sig) = "armed"
        /\ s # stream[st].sig
        /\ subject[s].target = "A"
        /\ SignalState(s) = "closed"
        /\ subject[s].emitted = 1

\* C6: when the original hook has raised, the error has reached the invoker (no
\* invocation is in progress), every signal of the instance that was armed when
\* the invocation started is still armed, the registry entry it had is in place
\* and no stream subscribed at that moment has completed or been released.
C6_RaiseFiresNothing ==
    outcome = "raised" =>
        /\ Idle
        /\ (pre.map # NoSignal /\ ~reclaimed[pre.target]) =>
            /\ instanceDestroyMap[pre.target] = pre.map
            /\ SignalState(pre.map) = "armed"
        /\ \A s \in pre.armed : SignalState(s) = "armed" /\ subject[s].emitted = 0
        /\ \A st \in pre.subs : stream[st].state = "subscribed" /\ stream[st].released = 0

C6_Witness ==
    /\ outcome = "raised"
    /\ pre.map # NoSignal
    /\ pre.subs # {}
    /\ instanceDestroyMap[pre.target] = pre.map

\* C7: no subscription ever exists on a stream whose request failed: the failure
\* is raised by the request itself, which returns no stream.
C7_NoSubscriptionAfterFailure ==
    \A st \in Streams :
        stream[st].served = "error" =>
            /\ stream[st].state \notin {"piped", "subscribed", "completed"}
            /\ \A s \in Signals : \A k \in 1..Len(subject[s].observers) :
                subject[s].observers[k] # st

C7_Witness ==
    /\ \E st \in Streams : stream[st].served = "error"
    /\ \E st \in Streams : stream[st].state = "subscribed"

C9_ServedArmed ==
    \A st \in Streams : stream[st].served \in {"none", "error", "armed"}

\* C10: the operator assigns an instance's hook attribute exactly once, however
\* many requests and hook invocations there are.
C10_HookWrittenOnce ==
    \A i \in Instances :
        /\ hookWrites[i] <= 1
        /\ Served(i) # {} => hookWrites[i] = 1
        /\ Len(ngOnDestroy[i].wrappers) = hookWrites[i]

\* C11: within one invocation of the hook, a signal emits only after the original
\* hook has returned, a stream completes only on that emission, a signal is
\* marked complete only after it has emitted, and the instance's registry entry
\* is removed only after the signal it holds has emitted and is complete.
C11_FiringOrder ==
    [][/\ \A s \in Signals :
            /\ subject'[s].emitted # subject[s].emitted =>
                /\ call.pc = "next"
                /\ call.level >= 1
                /\ originalCalls[call.target] = hookCalls[call.target]
            /\ (subject'[s].isStopped /\ ~subject[s].isStopped) => subject[s].emitted = 1
       /\ \A st \in Streams :
            (stream'[st].state = "completed" /\ stream[st].state # "completed") =>
                /\ call.pc = "notify"
                /\ subject[stream[st].sig].emitted = 1
       /\ \A i \in Instances :
            (/\ call.target = i
             /\ instanceDestroyMap[i] # NoSignal
             /\ instanceDestroyMap'[i] = NoSignal) =>
                /\ subject[instanceDestroyMap[i]].emitted = 1
                /\ subject'[instanceDestroyMap[i]].isStopped]_vars

\* C12: a signal emits at most one notification, a closed signal has emitted its
\* one notification and emits no more, and a stream that subscribed to a signal
\* that had fired is never completed by a notification.
C12_OneShot ==
    /\ \A s \in Signals :
        /\ subject[s].emitted <= 1
        /\ subject[s].isStopped => (subject[s].emitted = 1 /\ subject[s].observers = <<>>)
    /\ \A st \in Streams :
        stream[st].attached \in {"fired", "closed"} =>
            /\ stream[st].state = "subscribed"
            /\ stream[st].released = 0

C12_Witness ==
    /\ Idle
    /\ hookCalls["A"] = 2
    /\ outcome = "returned"
    /\ \E s \in Signals :
        /\ subject[s].target = "A"
        /\ SignalState(s) = "closed"
        /\ s # pre.map
        /\ s \notin pre.armed
        /\ \E st \in Streams : stream[st].sig = s /\ stream[st].attached = "closed"

\* C13: when an invocation of a wrapped hook returns normally, no stream piped
\* for the instance is still subscribed, and no signal of the instance is armed
\* with subscribers.
C13_AllCompletedOnReturn ==
    [][(outcome = "running" /\ outcome' = "returned" /\ call.top > 0) =>
        /\ \A st \in Streams :
            stream'[st].target = call.target => stream'[st].state # "subscribed"
        /\ \A s \in Signals :
            (subject'[s].target = call.target /\ ~subject'[s].isStopped) =>
                subject'[s].observers = <<>>]_vars

\* C14: whenever no hook invocation is in progress, the armed signals of a live
\* instance are exactly the signal its registry entry holds: none without an
\* entry, that one with an entry.
C14_EntryIffArmed ==
    Idle =>
        \A i \in Instances :
            ~reclaimed[i] =>
                {s \in Signals : subject[s].target = i /\ SignalState(s) = "armed"}
                    = (IF instanceDestroyMap[i] = NoSignal THEN {}
                       ELSE {instanceDestroyMap[i]})

\* C15: out of any invocation, the original hook of an instance has run exactly
\* once per invocation of the instance's hook, however many wrappers requests
\* have stacked on it; during an invocation it has run at most once for it.
C15_OriginalOncePerCall ==
    \A i \in Instances :
        /\ (Idle \/ call.target # i) => originalCalls[i] = hookCalls[i]
        /\ originalCalls[i] <= hookCalls[i]
        /\ hookCalls[i] <= originalCalls[i] + 1
        /\ (call.target = i /\ call.pc \notin {"idle", "enter"}) =>
                originalCalls[i] = hookCalls[i]

C15_Witness ==
    /\ Idle
    /\ outcome = "returned"
    /\ hookCalls["A"] = 2
    /\ originalCalls["A"] = 2
    /\ Len(ngOnDestroy["A"].wrappers) >= 2
    /\ pre.map # NoSignal
    /\ pre.map = ngOnDestroy["A"].wrappers[2]
    /\ SignalState(pre.map) = "closed"

\* C16: building the operator function for an instance changes neither the
\* registry, nor any hook attribute, nor the signals, nor any stream, and raises
\* nothing; the application to a stream acts on the state at that moment: it
\* fails if the hook is not callable then, uses the registry's signal if there
\* is one then, and installs a new one otherwise.
C16_CreationInert ==
    [][/\ (operator = "-" /\ operator' # "-") =>
            /\ instanceDestroyMap' = instanceDestroyMap
            /\ ngOnDestroy' = ngOnDestroy
            /\ subject' = subject
            /\ stream' = stream
            /\ hookWrites' = hookWrites
       /\ \A st \in Streams :
            (stream[st].state = "unused" /\ stream'[st].state # "unused") =>
                LET i == stream'[st].target IN
                /\ operator = i
                /\ IF TypeOf(i) # "function"
                       THEN /\ stream'[st].served = "error"
                            /\ hookWrites' = hookWrites
                       ELSE IF instanceDestroyMap[i] # NoSignal
                       THEN /\ stream'[st].sig = instanceDestroyMap[i]
                            /\ hookWrites' = hookWrites
                            /\ subject' = subject
                       ELSE /\ ~subject[stream'[st].sig].used
                            /\ instanceDestroyMap'[i] = stream'[st].sig
                            /\ hookWrites'[i] = hookWrites[i] + 1]_vars

C16_Witness ==
    /\ operator = "B"
    /\ \A st \in Streams : stream[st].served # "error"
    /\ instanceDestroyMap["A"] # NoSignal
    /\ ngOnDestroy["B"].wrappers = <<>>

====
